---- MODULE Spec2Model ----
(***************************************************************************)
(* Model of the OpsPilot agent orchestration core:                         *)
(*   opspilot/agent/core.py          AgentCore (mode, registry, history,   *)
(*                                   usage, think / act / process)         *)
(*   opspilot/agent/tools/system.py  SystemTool (safety check, executor)   *)
(* Strings are sequences of tokens: "" is <<>>, f"AI Error: {e}" is        *)
(* <<"AI Error: ", e>>.  Python's None is NoneVal.                         *)
(***************************************************************************)
EXTENDS Integers, Sequences, FiniteSets, TLC

VARIABLES
    mode,           \* AgentCore.mode
    tools,          \* AgentCore.tools, a dict in insertion order
    messages,       \* AgentCore.messages
    usage_stats,    \* AgentCore.usage_stats
    pc,             \* where the process() coroutine stands
    phase,          \* 1: first think of process(), 2: the follow-up think
    calls,          \* act's tool_calls argument
    idx,            \* act's loop position in calls
    request,        \* the arguments of the acompletion call in flight
    response,       \* what process() returned, or the exception it raised
    nextId,         \* ids the completion client has handed out so far
    nproc,          \* process() invocations so far
    startLen,       \* len(messages) when the current process() began
    actRounds,      \* Act phases the current process() has entered
    completions,    \* acompletion calls the current process() has made
    invoked,        \* handler invocations of the current process()
    outcomes,       \* how each call of the current Act phase ended
    confirmation_callback,  \* SystemTool.confirmation_callback
    dangerous_keywords,     \* SystemTool.dangerous_keywords
    xpc,            \* where the execute_command coroutine stands
    xcmd,           \* execute_command's command argument
    xtimeout,       \* execute_command's timeout, after float()
    xkeyword,       \* the keyword handed to the confirmation callback
    confirmCalls,   \* callback invocations of the current call
    confirmed,      \* what the callback answered in the current call
    proc,           \* the OS process the current call spawned
    spawned,        \* processes the current call has spawned
    signals,        \* signals the executor sent to that process
    orphans,        \* processes earlier calls left running
    nexec,          \* execute_command calls so far
    result,         \* what execute_command returned, or the fault it raised
    processing,     \* OpsPilotTUI._processing
    appInFlight,    \* agent.process() calls of OpsPilotTUI not yet returned
    lastSend,       \* how the last send attempt ended
    submit_ready,   \* PromptInput.submit_ready
    promptText,     \* the prompt holds text that is not blank
    chatQueue,      \* messages waiting in the Chat widget's message queue
    chatPc,         \* where Chat.new_user_message stands
    workers,        \* stream_agent_response workers inside agent.process()
    nsend,          \* prompts submitted so far
    current_session,    \* MemoryManager.current_session
    files,          \* storage_dir: file name -> the JSON document it holds
    loadResult,     \* what the last load_session call returned
    known,          \* session id -> the session as it last was in memory
    nsess,          \* uuids handed out for sessions
    nmsg,           \* uuids handed out for messages
    clock,          \* time.time()
    exported        \* what the last export_session call returned

agentVars == <<mode, tools, messages, usage_stats, pc, phase, calls, idx,
               request, response, nextId, nproc, startLen, actRounds,
               completions, invoked, outcomes>>

execVars == <<confirmation_callback, dangerous_keywords, xpc, xcmd, xtimeout,
              xkeyword, confirmCalls, confirmed, proc, spawned, signals,
              orphans, nexec,
              result>>

tuiVars == <<processing, appInFlight, lastSend, submit_ready, promptText,
             chatQueue, chatPc, workers, nsend>>

memVars ==
    <<current_session, files, loadResult, known, nsess, nmsg, clock, exported>>

vars == <<agentVars, execVars, tuiVars, memVars>>

-----------------------------------------------------------------------------
(* Bounds of the model *)

MaxCalls == 2
MaxIds == 2
MaxProcess == 1
MaxRequests == 3
MaxExec == 2
MaxSends == 3
MaxSessions == 2
MaxMessages == 2
PrefillLen == 998
MaxStored == 1002

-----------------------------------------------------------------------------
(* Values *)

NoneVal == "None"

\* None as a string value, as a tool_call_id and as the result of a
\* completion_cost that raised
NoContent == <<NoneVal>>

NoId == 0

CostRaises == -1

AgentMode == {"plan", "build"}

ToolNames == {"read_file", "write_file", "execute_command"}

Handlers == {"f1", "f2"}

\* core.py Tool dataclass (description and parameters travel with function)
Tool == [name : ToolNames, function : Handlers, requires_build_mode : BOOLEAN]

Message(role, content, tool_calls, tool_call_id) ==
    [role |-> role, content |-> content, tool_calls |-> tool_calls,
     tool_call_id |-> tool_call_id]

ZeroUsage ==
    [total_tokens |-> 0, total_cost |-> 0, requests_count |-> 0,
     current_context_tokens |-> 0]

Last(s) == s[Len(s)]

-----------------------------------------------------------------------------
(* Tool registry and capability gate *)

IndexOf(ts, name) ==
    IF \E i \in 1..Len(ts) : ts[i].name = name
    THEN CHOOSE i \in 1..Len(ts) : ts[i].name = name
    ELSE 0

\* a registry that keeps every registration
RegisterToolAppend(ts, tool) == Append(ts, tool)

\* self.tools[tool_obj.name] = tool_obj : a dict keeps the position of a key
\* that is assigned again
RegisterToolOp(ts, tool) ==
    IF IndexOf(ts, tool.name) = 0
    THEN Append(ts, tool)
    ELSE [ts EXCEPT ![IndexOf(ts, tool.name)] = tool]

\* a gate that offers every tool in every mode
OfferedAlways(tool, m) == TRUE

Offered(tool, m) == ~(tool.requires_build_mode /\ m = "plan")

ToolSchema(tool) == [type |-> "function", name |-> tool.name]

RECURSIVE GetAvailableTools(_, _)
GetAvailableTools(ts, m) ==
    IF ts = <<>> THEN <<>>
    ELSE IF Offered(ts[1], m)
         THEN <<ToolSchema(ts[1])>> \o GetAvailableTools(Tail(ts), m)
         ELSE GetAvailableTools(Tail(ts), m)

GetSystemPrompt(m) == IF m = "plan" THEN "PLAN MODE" ELSE "BUILD MODE"

-----------------------------------------------------------------------------
(* Usage tracking *)

\* response.usage: absent (None), or the three token counts
NoUsage ==
    [present |-> FALSE, prompt_tokens |-> 0, completion_tokens |-> 0,
     total_tokens |-> 0]

Usage(p, c, t) ==
    [present |-> TRUE, prompt_tokens |-> p, completion_tokens |-> c,
     total_tokens |-> t]

\* a tracker that stores the last response's total instead of adding it
TrackUsageLast(stats, usage, cost) ==
    IF ~usage.present THEN stats
    ELSE [stats EXCEPT
             !.total_tokens = usage.total_tokens,
             !.requests_count = @ + 1,
             !.total_cost = IF cost = CostRaises THEN @ ELSE @ + cost,
             !.current_context_tokens = usage.prompt_tokens]

\* _track_usage: the counters are updated one by one inside one try block, so
\* a completion_cost that raises leaves the first two updates in place
TrackUsage(stats, usage, cost) ==
    IF ~usage.present THEN stats
    ELSE LET counted == [stats EXCEPT
                 !.total_tokens = @ + usage.total_tokens,
                 !.requests_count = @ + 1]
         IN  IF cost = CostRaises THEN counted
             ELSE [counted EXCEPT
                 !.total_cost = @ + cost,
                 !.current_context_tokens = usage.prompt_tokens]

-----------------------------------------------------------------------------
(* Conversation history *)

AddMessageOverwrite(msgs, role, content, tool_calls, tool_call_id) ==
    IF msgs = <<>>
    THEN <<Message(role, content, tool_calls, tool_call_id)>>
    ELSE [msgs EXCEPT ![Len(msgs)] =
             Message(role, content, tool_calls, tool_call_id)]

AddMessage(msgs, role, content, tool_calls, tool_call_id) ==
    Append(msgs, Message(role, content, tool_calls, tool_call_id))

\* a request that leaves the tool results out
RequestMessagesNoTools(msgs) ==
    LET kept == SelectSeq(msgs, LAMBDA x : x.role # "tool")
    IN  [i \in 1..Len(kept) |->
            [role |-> kept[i].role, content |-> kept[i].content]]

RECURSIVE RequestMessages(_)
RequestMessages(msgs) ==
    IF msgs = <<>> THEN <<>>
    ELSE <<[role |-> msgs[1].role, content |-> msgs[1].content]>>
         \o RequestMessages(Tail(msgs))

NoRequest == [messages |-> <<>>, tools |-> <<>>]

\* a think that offers the tools of the registry as it was at construction
BuildRequestCached(msgs, m, ts) ==
    [messages |-> <<[role |-> "system", content |-> <<GetSystemPrompt(m)>>]>>
                  \o RequestMessages(msgs),
     tools |-> GetAvailableTools(<<>>, m)]

\* think, up to the await of acompletion
BuildRequest(msgs, m, ts) ==
    [messages |-> <<[role |-> "system", content |-> <<GetSystemPrompt(m)>>]>>
                  \o RequestMessages(msgs),
     tools |-> GetAvailableTools(ts, m)]

-----------------------------------------------------------------------------
(* The completion client's replies and the tool handlers' outcomes *)

ArgTexts == {"{}", "[1]", "{bad"}

\* json.loads(tool_call["function"]["arguments"])
ParseArgs(text) ==
    CASE text = "{}" -> [ok |-> TRUE, value |-> "dict"]
      [] text = "[1]" -> [ok |-> TRUE, value |-> "list"]
      [] OTHER -> [ok |-> FALSE, value |-> "JSONDecodeError"]

\* the calls the model's completion client issues
CallKinds ==
    {<<"read_file", "{}">>, <<"execute_command", "{}">>,
     <<"read_file", "{bad">>, <<"execute_command", "[1]">>}

\* the tool_calls of a reply: n calls with fresh ids
ToolCalls(first, kinds) ==
    [i \in 1..Len(kinds) |->
        [id |-> first + i, name |-> kinds[i][1], arguments |-> kinds[i][2]]]

\* the content of a reply: text, or None when the reply carries tool calls
ReplyContent(kinds) == IF kinds = <<>> THEN <<"text">> ELSE NoContent

\* assistant_message.content or ""
ContentOrEmpty(c) == IF c = NoContent THEN <<>> ELSE c

ReplyUsages == {Usage(2, 1, 3)}

ReplyCosts == {1}

\* acompletion raised or response.choices[0] raised (timeout: both reach
\* the except branch before usage is tracked), or the message was malformed
\* and reading it raised after usage was tracked (no_content)
CompletionErrors == {"timeout", "no_content"}

ToolOutcomes == {[ok |-> TRUE, text |-> "result"], [ok |-> FALSE, text |-> "boom"]}

AIErrorPrefix == "AI Error: "

ToolErrorPrefix == "Tool Error: "

-----------------------------------------------------------------------------
(* SystemTool: danger classifier, confirmation gate, executor.  Command     *)
(* texts are sequences of one-character strings.                            *)

DangerousKeywords ==
    {<<"r","m">>, <<"d","e","l","e","t","e">>, <<"d","e","l">>,
     <<"f","o","r","m","a","t">>, <<"f","d","i","s","k">>,
     <<"m","k","f","s">>, <<"s","y","s","t","e","m","c","t","l">>,
     <<"s","e","r","v","i","c","e">>, <<"i","n","i","t">>,
     <<"s","h","u","t","d","o","w","n">>, <<"r","e","b","o","o","t">>,
     <<"k","u","b","e","c","t","l">>, <<"h","e","l","m">>,
     <<"d","o","c","k","e","r"," ","r","m">>,
     <<"d","o","c","k","e","r"," ","k","i","l","l">>,
     <<"c","h","m","o","d"," ","7","7","7">>, <<"c","h","o","w","n">>,
     <<"s","u","d","o">>, <<"s","u">>, <<"p","a","s","s","w","d">>,
     <<"c","r","o","n","t","a","b">>, <<"a","t">>,
     <<"b","a","t","c","h">>, <<"n","o","h","u","p">>}

UpperToLower ==
    [A |-> "a", B |-> "b", C |-> "c", D |-> "d", E |-> "e", F |-> "f",
     G |-> "g", H |-> "h", I |-> "i", J |-> "j", K |-> "k", L |-> "l",
     M |-> "m", N |-> "n", O |-> "o", P |-> "p", Q |-> "q", R |-> "r",
     S |-> "s", T |-> "t", U |-> "u", V |-> "v", W |-> "w", X |-> "x",
     Y |-> "y", Z |-> "z"]

\* command.lower()
Lower(text) ==
    [i \in 1..Len(text) |->
        IF text[i] \in DOMAIN UpperToLower THEN UpperToLower[text[i]]
        ELSE text[i]]

ContainsPrefix(text, keyword) ==
    /\ Len(text) >= Len(keyword)
    /\ SubSeq(text, 1, Len(keyword)) = keyword

\* keyword in command_lower
Contains(text, keyword) ==
    \E i \in 0..(Len(text) - Len(keyword)) :
        SubSeq(text, i + 1, i + Len(keyword)) = keyword

\* the keywords the scan of _safety_check can stop at: the set is iterated
\* in an order the run fixes, so any keyword that occurs may be the first
MatchedKeywords(keywords, command) ==
    {k \in keywords : Contains(Lower(command), k)}

\* shlex.split for texts with blanks and double quotes: blanks outside
\* quotes separate the words, a quote left open is a ValueError
RECURSIVE ShlexScan(_, _, _, _, _)
ShlexScan(text, i, inQuote, word, words) ==
    IF i > Len(text)
    THEN IF inQuote THEN [ok |-> FALSE, args |-> <<>>]
         ELSE [ok |-> TRUE,
               args |-> IF word = <<>> THEN words ELSE Append(words, word)]
    ELSE IF text[i] = "\""
         THEN ShlexScan(text, i + 1, ~inQuote, word, words)
    ELSE IF text[i] = " " /\ ~inQuote
         THEN ShlexScan(text, i + 1, inQuote, <<>>,
                        IF word = <<>> THEN words ELSE Append(words, word))
    ELSE ShlexScan(text, i + 1, inQuote, Append(word, text[i]), words)

ShlexSplit(text) == ShlexScan(text, 1, FALSE, <<>>, <<>>)

\* " ".join(args)
RECURSIVE Join(_)
Join(args) ==
    IF args = <<>> THEN <<>>
    ELSE IF Len(args) = 1 THEN args[1]
    ELSE args[1] \o <<" ">> \o Join(Tail(args))

NoCallback == "None"

NoResult == [kind |-> "none"]

\* the dicts execute_command returns; DOMAIN is the dict's keys
BlockedResult(command) ==
    [success |-> FALSE, error |-> <<"Command blocked by safety check">>,
     command |-> command]

TimeoutResultWithCode(command, timeout) ==
    [success |-> FALSE, return_code |-> -1, stdout |-> <<>>,
     stderr |-> <<"Command timed out after ", timeout, " seconds">>,
     command |-> command]

TimeoutResult(command, timeout) ==
    [success |-> FALSE,
     error |-> <<"Command timed out after ", timeout, " seconds">>,
     command |-> command]

ErrorResult(command, e) ==
    [success |-> FALSE, error |-> <<e>>, command |-> command]

\* a result that reports every completed process as a success
CompletedResultAlwaysOk(args, rc, out, err) ==
    [success |-> TRUE, return_code |-> rc, stdout |-> out, stderr |-> err,
     command |-> Join(args)]

CompletedResult(args, rc, out, err) ==
    [success |-> rc = 0, return_code |-> rc, stdout |-> out, stderr |-> err,
     command |-> Join(args)]

SpawnFailedResult(args, e) ==
    [success |-> FALSE, return_code |-> -1, stdout |-> <<>>, stderr |-> <<e>>,
     command |-> Join(args)]

\* execute_command after the safety check let the command through:
\* tokenize, then wait_for(_capture_output(args, cwd), timeout)
StartRun(command, timeout) ==
    IF ~ShlexSplit(command).ok
    THEN /\ xpc' = "returned"
         /\ result' = ErrorResult(command, "No closing quotation")
    ELSE /\ xpc' = "spawn"
         /\ UNCHANGED result

NeedsConfirmationStrict(matched, callback) == matched # {}

\* _safety_check asks the callback when the scan stops at a keyword and a
\* callback is configured; with no callback the command is let through
NeedsConfirmation(matched, callback) ==
    matched # {} /\ callback # NoCallback

\* execute_command(command, timeout) up to its first await
ExecuteCommand(command, timeout) ==
    /\ xpc = "idle"
    /\ nexec < MaxExec
    /\ nexec' = nexec + 1
    /\ xcmd' = command
    /\ proc' = "none"
    /\ spawned' = 0
    /\ signals' = <<>>
    /\ confirmed' = "none"
    /\ IF ~timeout.num
       THEN \* float(timeout) raises before any try block
            /\ xpc' = "raised"
            /\ result' = [kind |-> "ValueError"]
            /\ xtimeout' = 0
            /\ xkeyword' = <<>>
            /\ confirmCalls' = 0
       ELSE /\ xtimeout' = timeout.value
            /\ LET matched == MatchedKeywords(dangerous_keywords, command)
               IN  IF NeedsConfirmation(matched, confirmation_callback)
                   THEN /\ xpc' = "confirm"
                        /\ xkeyword' \in matched
                        /\ confirmCalls' = 1
                        /\ UNCHANGED result
                   ELSE /\ StartRun(command, timeout.value)
                        /\ xkeyword' = <<>>
                        /\ confirmCalls' = 0
    /\ UNCHANGED <<confirmation_callback, dangerous_keywords, orphans>>
    /\ UNCHANGED agentVars
    /\ UNCHANGED tuiVars
    /\ UNCHANGED memVars

SafetyCheckAllows(decision) == TRUE

\* what _safety_check returns for a command with a dangerous keyword once
\* the callback answered: the callback's answer
SafetyCheckResult(decision) == decision = "yes"

\* the confirmation callback answered, or failed
ConfirmReturn(decision) ==
    /\ xpc = "confirm"
    /\ confirmed' = decision
    /\ IF decision = "raise"
       THEN /\ xpc' = "raised"
            /\ result' = [kind |-> "CallbackError"]
       ELSE IF SafetyCheckResult(decision)
       THEN StartRun(xcmd, xtimeout)
       ELSE /\ xpc' = "returned"
            /\ result' = BlockedResult(xcmd)
    /\ UNCHANGED <<confirmation_callback, dangerous_keywords, xcmd, xtimeout,
                   xkeyword, confirmCalls, proc, spawned, signals, orphans,
                   nexec>>
    /\ UNCHANGED agentVars
    /\ UNCHANGED tuiVars
    /\ UNCHANGED memVars

\* _capture_output: create_subprocess_exec started the process
SpawnOk ==
    /\ xpc = "spawn"
    /\ ShlexSplit(xcmd).args # <<>>
    /\ xpc' = "communicate"
    /\ proc' = "running"
    /\ spawned' = spawned + 1
    /\ UNCHANGED <<confirmation_callback, dangerous_keywords, xcmd, xtimeout,
                   xkeyword, confirmCalls, confirmed, signals, orphans,
                   nexec, result>>
    /\ UNCHANGED agentVars
    /\ UNCHANGED tuiVars
    /\ UNCHANGED memVars

\* _capture_output: create_subprocess_exec raised (no such file, permission
\* denied, no program in an empty argument list)
SpawnFail(e) ==
    /\ xpc = "spawn"
    /\ (ShlexSplit(xcmd).args = <<>>) <=> (e = "TypeError")
    /\ xpc' = "returned"
    /\ result' = SpawnFailedResult(ShlexSplit(xcmd).args, e)
    /\ UNCHANGED <<confirmation_callback, dangerous_keywords, xcmd, xtimeout,
                   xkeyword, confirmCalls, confirmed, proc, spawned, signals,
                   orphans,
                   nexec>>
    /\ UNCHANGED agentVars
    /\ UNCHANGED tuiVars
    /\ UNCHANGED memVars

\* _capture_output: the process exited and communicate() returned
ProcessExit(rc, out, err) ==
    /\ xpc = "communicate"
    /\ proc = "running"
    /\ proc' = "exited"
    /\ xpc' = "returned"
    /\ result' = CompletedResult(ShlexSplit(xcmd).args, rc, out, err)
    /\ UNCHANGED <<confirmation_callback, dangerous_keywords, xcmd, xtimeout,
                   xkeyword, confirmCalls, confirmed, spawned, signals,
                   orphans, nexec>>
    /\ UNCHANGED agentVars
    /\ UNCHANGED tuiVars
    /\ UNCHANGED memVars

\* wait_for timed out while the process runs: the cancelled coroutine leaves
\* communicate() with CancelledError, which its except Exception does not
\* catch; asyncio.TimeoutError reaches execute_command; nothing signals the
\* process
Timeout ==
    /\ xpc = "communicate"
    /\ xpc' = "returned"
    /\ result' = TimeoutResult(xcmd, xtimeout)
    /\ UNCHANGED <<confirmation_callback, dangerous_keywords, xcmd, xtimeout,
                   xkeyword, confirmCalls, confirmed, proc, spawned, signals,
                   orphans, nexec>>
    /\ UNCHANGED agentVars
    /\ UNCHANGED tuiVars
    /\ UNCHANGED memVars

\* a process the executor no longer waits for ends by itself
OrphanExit ==
    /\ xpc = "returned"
    /\ proc = "running"
    /\ proc' = "exited"
    /\ UNCHANGED <<confirmation_callback, dangerous_keywords, xpc, xcmd,
                   xtimeout, xkeyword, confirmCalls, confirmed, spawned,
                   signals, orphans,
                   nexec, result>>
    /\ UNCHANGED agentVars
    /\ UNCHANGED tuiVars
    /\ UNCHANGED memVars

\* the caller of execute_command takes the result or the fault
ExecuteReturn ==
    /\ xpc \in {"returned", "raised"}
    /\ xpc' = "idle"
    /\ orphans' = IF proc = "running" THEN orphans + 1 ELSE orphans
    /\ proc' = "none"
    /\ UNCHANGED <<confirmation_callback, dangerous_keywords, xcmd, xtimeout,
                   xkeyword, confirmCalls, confirmed, spawned, signals,
                   nexec, result>>
    /\ UNCHANGED agentVars
    /\ UNCHANGED tuiVars
    /\ UNCHANGED memVars

\* system_tool.confirmation_callback = ...
SetConfirmationCallback(cb) ==
    /\ confirmation_callback' = cb
    /\ UNCHANGED <<dangerous_keywords, xpc, xcmd, xtimeout, xkeyword,
                   confirmCalls, confirmed, proc, spawned, signals, orphans,
                   nexec,
                   result>>
    /\ UNCHANGED agentVars
    /\ UNCHANGED tuiVars
    /\ UNCHANGED memVars

\* execute_command up to the test of self.confirmation_callback in
\* _safety_check, for an executor whose callback another thread may assign
\* between any two reads of the attribute
ExecuteCommandThreaded(command, timeout) ==
    /\ xpc = "idle"
    /\ nexec < MaxExec
    /\ nexec' = nexec + 1
    /\ xcmd' = command
    /\ proc' = "none"
    /\ spawned' = 0
    /\ signals' = <<>>
    /\ confirmed' = "none"
    /\ confirmCalls' = 0
    /\ IF ~timeout.num
       THEN /\ xpc' = "raised"
            /\ result' = [kind |-> "ValueError"]
            /\ xtimeout' = 0
            /\ xkeyword' = <<>>
       ELSE /\ xtimeout' = timeout.value
            /\ LET matched == MatchedKeywords(dangerous_keywords, command)
               IN  IF NeedsConfirmation(matched, confirmation_callback)
                   THEN /\ xpc' = "request"
                        /\ xkeyword' \in matched
                        /\ UNCHANGED result
                   ELSE /\ StartRun(command, timeout.value)
                        /\ xkeyword' = <<>>
    /\ UNCHANGED <<confirmation_callback, dangerous_keywords, orphans>>
    /\ UNCHANGED agentVars
    /\ UNCHANGED tuiVars
    /\ UNCHANGED memVars

\* _request_confirmation reads self.confirmation_callback again: without a
\* callback it answers False and the command is blocked
RequestConfirmation ==
    /\ xpc = "request"
    /\ IF confirmation_callback # NoCallback
       THEN /\ xpc' = "invoke"
            /\ UNCHANGED result
       ELSE /\ xpc' = "returned"
            /\ result' = BlockedResult(xcmd)
    /\ UNCHANGED <<confirmation_callback, dangerous_keywords, xcmd, xtimeout,
                   xkeyword, confirmCalls, confirmed, proc, spawned, signals,
                   orphans, nexec>>
    /\ UNCHANGED agentVars
    /\ UNCHANGED tuiVars
    /\ UNCHANGED memVars

\* _request_confirmation reads the attribute a third time to call it:
\* calling None raises TypeError, outside every try block
InvokeCallback ==
    /\ xpc = "invoke"
    /\ IF confirmation_callback # NoCallback
       THEN /\ xpc' = "confirm"
            /\ confirmCalls' = 1
            /\ UNCHANGED result
       ELSE /\ xpc' = "raised"
            /\ result' = [kind |-> "TypeError"]
            /\ UNCHANGED confirmCalls
    /\ UNCHANGED <<confirmation_callback, dangerous_keywords, xcmd, xtimeout,
                   xkeyword, confirmed, proc, spawned, signals, orphans,
                   nexec>>
    /\ UNCHANGED agentVars
    /\ UNCHANGED tuiVars
    /\ UNCHANGED memVars

-----------------------------------------------------------------------------
(* process(): think, act, think *)

\* a loop that acts on every reply that carries tool calls
ShouldActAlways(ph, last) == last.tool_calls # <<>>

\* process, lines 272-273: the Act phase is entered after the first think
\* only, when the last message carries tool calls
ShouldAct(ph, last) == ph = 1 /\ last.tool_calls # <<>>

\* think returned text to process(): enter act, or return
AfterThink(msgs, text) ==
    /\ messages' = msgs
    /\ request' = NoRequest
    /\ IF ShouldAct(phase, Last(msgs))
       THEN /\ pc' = "act"
            /\ calls' = Last(msgs).tool_calls
            /\ idx' = 1
            /\ actRounds' = actRounds + 1
            /\ UNCHANGED response
       ELSE /\ pc' = "done"
            /\ response' = [kind |-> "returned", value |-> text]
            /\ UNCHANGED <<calls, idx, actRounds>>

\* process(user_input): think adds the user message and awaits acompletion
ProcessCall(input) ==
    /\ pc = "idle"
    /\ nproc < MaxProcess
    /\ LET msgs == AddMessage(messages, "user", input, <<>>, NoId)
       IN  /\ messages' = msgs
           /\ request' = BuildRequest(msgs, mode, tools)
    /\ pc' = "think"
    /\ phase' = 1
    /\ nproc' = nproc + 1
    /\ startLen' = Len(messages)
    /\ actRounds' = 0
    /\ completions' = 1
    /\ invoked' = <<>>
    /\ outcomes' = <<>>
    /\ calls' = <<>>
    /\ idx' = 0
    /\ response' = [kind |-> "none", value |-> <<>>]
    /\ UNCHANGED <<mode, tools, usage_stats, nextId>>
    /\ UNCHANGED execVars
    /\ UNCHANGED tuiVars
    /\ UNCHANGED memVars

\* acompletion returned a well-formed response
CompletionOk(content, kinds, usage, cost) ==
    /\ pc = "think"
    /\ nextId + Len(kinds) <= MaxIds
    /\ nextId' = nextId + Len(kinds)
    /\ usage_stats' = TrackUsage(usage_stats, usage, cost)
    /\ AfterThink(AddMessage(messages, "assistant", ContentOrEmpty(content),
                             ToolCalls(nextId, kinds), NoId),
                  ContentOrEmpty(content))
    /\ UNCHANGED <<mode, tools, phase, nproc, startLen, completions,
                   invoked, outcomes>>
    /\ UNCHANGED execVars
    /\ UNCHANGED tuiVars
    /\ UNCHANGED memVars

\* a think without the except branch: the failure leaves process()
CompletionFailRaises(e, usage, cost) ==
    /\ pc = "think"
    /\ pc' = "raised"
    /\ response' = [kind |-> "raised", value |-> <<e>>]
    /\ UNCHANGED <<mode, tools, messages, usage_stats, phase, calls, idx,
                   request, nextId, nproc, startLen, actRounds, completions,
                   invoked, outcomes>>
    /\ UNCHANGED execVars
    /\ UNCHANGED tuiVars
    /\ UNCHANGED memVars

\* an except branch that counts every failed call as a request
CompletionFailCounted(e, usage, cost) ==
    /\ pc = "think"
    /\ usage_stats' = TrackUsage(usage_stats, usage, cost)
    /\ AfterThink(AddMessage(messages, "assistant", <<AIErrorPrefix, e>>,
                             <<>>, NoId),
                  <<AIErrorPrefix, e>>)
    /\ UNCHANGED <<mode, tools, phase, nproc, startLen, completions,
                   invoked, outcomes, nextId>>
    /\ UNCHANGED execVars
    /\ UNCHANGED tuiVars
    /\ UNCHANGED memVars

\* the completion call failed: think's except branch
CompletionFail(e, usage, cost) ==
    /\ pc = "think"
    /\ usage_stats' = IF e = "no_content"
                      THEN TrackUsage(usage_stats, usage, cost)
                      ELSE usage_stats
    /\ AfterThink(AddMessage(messages, "assistant", <<AIErrorPrefix, e>>,
                             <<>>, NoId),
                  <<AIErrorPrefix, e>>)
    /\ UNCHANGED <<mode, tools, phase, nproc, startLen, completions,
                   invoked, outcomes, nextId>>
    /\ UNCHANGED execVars
    /\ UNCHANGED tuiVars
    /\ UNCHANGED memVars

\* a follow-up think that sends the history without a new user message
AdvanceNoUserTurn(msgs) ==
    IF idx < Len(calls)
    THEN /\ messages' = msgs
         /\ idx' = idx + 1
         /\ pc' = "act"
         /\ UNCHANGED <<calls, phase, request, completions>>
    ELSE /\ messages' = msgs
         /\ request' = BuildRequest(msgs, mode, tools)
         /\ pc' = "think"
         /\ phase' = 2
         /\ completions' = completions + 1
         /\ UNCHANGED <<calls, idx>>

\* act's loop after the tool message of call idx: next call, or act returns
\* and process calls think("")
Advance(msgs) ==
    IF idx < Len(calls)
    THEN /\ messages' = msgs
         /\ idx' = idx + 1
         /\ pc' = "act"
         /\ UNCHANGED <<calls, phase, request, completions>>
    ELSE LET msgs2 == AddMessage(msgs, "user", <<>>, <<>>, NoId)
         IN  /\ messages' = msgs2
             /\ request' = BuildRequest(msgs2, mode, tools)
             /\ pc' = "think"
             /\ phase' = 2
             /\ completions' = completions + 1
             /\ UNCHANGED <<calls, idx>>

\* a tool message that loses the id of its call
AppendToolResultNoId(msgs, text, id) == AddMessage(msgs, "tool", text, <<>>, NoId)

\* the tool message of one call: add_message("tool", text, tool_call_id=id)
AppendToolResult(msgs, text, id) == AddMessage(msgs, "tool", text, <<>>, id)

\* a lookup that pairs the handler of one registration with the flag of
\* another
LookupToolTorn(ts, name) ==
    [ts[IndexOf(ts, name)] EXCEPT !.requires_build_mode = ~@]

\* act, line 249: tool = self.tools[tool_name], one dict read that yields
\* the Tool object a registration stored
LookupTool(ts, name) == ts[IndexOf(ts, name)]

Outcome(call, kind) == [id |-> call.id, kind |-> kind]

\* one iteration of act's loop up to the await of the handler
ActStep ==
    /\ pc = "act"
    /\ LET call == calls[idx]
           parsed == ParseArgs(call.arguments)
           i == IndexOf(tools, call.name)
       IN  IF ~parsed.ok
           THEN \* json.loads is outside the try block
                /\ pc' = "raised"
                /\ response' = [kind |-> "raised", value |-> <<parsed.value>>]
                /\ UNCHANGED <<messages, calls, idx, phase, request,
                               completions, invoked, outcomes>>
           ELSE IF i = 0
           THEN \* self.tools[tool_name] raises KeyError
                /\ Advance(AppendToolResult(messages,
                                <<ToolErrorPrefix, "KeyError">>, call.id))
                /\ outcomes' = Append(outcomes, Outcome(call, "KeyError"))
                /\ UNCHANGED <<response, invoked>>
           ELSE IF parsed.value # "dict"
           THEN \* tool.function(**tool_args) raises TypeError
                /\ Advance(AppendToolResult(messages,
                                <<ToolErrorPrefix, "TypeError">>, call.id))
                /\ outcomes' = Append(outcomes, Outcome(call, "TypeError"))
                /\ UNCHANGED <<response, invoked>>
           ELSE /\ pc' = "tool"
                /\ invoked' = Append(invoked,
                       [id |-> call.id, name |-> call.name,
                        function |-> LookupTool(tools, call.name).function,
                        requires_build_mode |->
                            LookupTool(tools, call.name).requires_build_mode,
                        mode |-> mode])
                /\ UNCHANGED <<messages, calls, idx, phase, request,
                               completions, response, outcomes>>
    /\ UNCHANGED <<mode, tools, usage_stats, nextId, nproc, startLen,
                   actRounds>>
    /\ UNCHANGED execVars
    /\ UNCHANGED tuiVars
    /\ UNCHANGED memVars

\* the awaited handler returned a result or raised
ToolReturn(outcome) ==
    /\ pc = "tool"
    /\ Advance(AppendToolResult(messages,
                    IF outcome.ok THEN <<outcome.text>>
                    ELSE <<ToolErrorPrefix, outcome.text>>,
                    calls[idx].id))
    /\ outcomes' = Append(outcomes,
           Outcome(calls[idx], IF outcome.ok THEN "ok" ELSE "raised"))
    /\ UNCHANGED <<mode, tools, usage_stats, response, nextId, nproc,
                   startLen, actRounds, invoked>>
    /\ UNCHANGED execVars
    /\ UNCHANGED tuiVars
    /\ UNCHANGED memVars

\* a return that falls back to plan mode
ProcessReturnResetsMode ==
    /\ pc \in {"done", "raised"}
    /\ pc' = "idle"
    /\ mode' = "plan"
    /\ UNCHANGED <<tools, messages, usage_stats, phase, calls, idx,
                   request, response, nextId, nproc, startLen, actRounds,
                   completions, invoked, outcomes>>
    /\ UNCHANGED execVars
    /\ UNCHANGED tuiVars
    /\ UNCHANGED memVars

\* a process() that never hands its result back
ProcessReturnStays ==
    /\ pc \in {"done", "raised"}
    /\ UNCHANGED vars

\* the caller of process() takes the result or the exception
ProcessReturn ==
    /\ pc \in {"done", "raised"}
    /\ pc' = "idle"
    /\ UNCHANGED <<mode, tools, messages, usage_stats, phase, calls, idx,
                   request, response, nextId, nproc, startLen, actRounds,
                   completions, invoked, outcomes>>
    /\ UNCHANGED execVars
    /\ UNCHANGED tuiVars
    /\ UNCHANGED memVars

-----------------------------------------------------------------------------
(* Operations of the caller *)

\* a switch that starts a new conversation
SwitchModeClears(m) ==
    /\ mode' = m
    /\ messages' = <<>>
    /\ UNCHANGED <<tools, usage_stats, pc, phase, calls, idx,
                   request, response, nextId, nproc, startLen, actRounds,
                   completions, invoked, outcomes>>
    /\ UNCHANGED execVars
    /\ UNCHANGED tuiVars
    /\ UNCHANGED memVars

\* a switch that drops the build-only tools on entering plan mode
SwitchModeFiltering(m) ==
    /\ mode' = m
    /\ tools' = IF m = "plan"
                THEN SelectSeq(tools, LAMBDA t : ~t.requires_build_mode)
                ELSE tools
    /\ UNCHANGED <<messages, usage_stats, pc, phase, calls, idx,
                   request, response, nextId, nproc, startLen, actRounds,
                   completions, invoked, outcomes>>
    /\ UNCHANGED execVars
    /\ UNCHANGED tuiVars
    /\ UNCHANGED memVars

SwitchMode(m) ==
    /\ mode' = m
    /\ UNCHANGED <<tools, messages, usage_stats, pc, phase, calls, idx,
                   request, response, nextId, nproc, startLen, actRounds,
                   completions, invoked, outcomes>>
    /\ UNCHANGED execVars
    /\ UNCHANGED tuiVars
    /\ UNCHANGED memVars

RegisterTool(tool) ==
    /\ tools' = RegisterToolOp(tools, tool)
    /\ UNCHANGED <<mode, messages, usage_stats, pc, phase, calls, idx,
                   request, response, nextId, nproc, startLen, actRounds,
                   completions, invoked, outcomes>>
    /\ UNCHANGED execVars
    /\ UNCHANGED tuiVars
    /\ UNCHANGED memVars

\* a clear that also resets the usage counters
ClearHistoryResetsUsage ==
    /\ messages' = <<>>
    /\ usage_stats' = ZeroUsage
    /\ UNCHANGED <<mode, tools, pc, phase, calls, idx,
                   request, response, nextId, nproc, startLen, actRounds,
                   completions, invoked, outcomes>>
    /\ UNCHANGED execVars
    /\ UNCHANGED tuiVars
    /\ UNCHANGED memVars

ClearHistory ==
    /\ messages' = <<>>
    /\ UNCHANGED <<mode, tools, usage_stats, pc, phase, calls, idx,
                   request, response, nextId, nproc, startLen, actRounds,
                   completions, invoked, outcomes>>
    /\ UNCHANGED execVars
    /\ UNCHANGED tuiVars
    /\ UNCHANGED memVars

-----------------------------------------------------------------------------
(* Specification of the agent core.  The awaits of process() are the only   *)
(* points where the caller's operations run (one event loop).               *)

\* MemoryManager.current_session is None
NoSession == [none |-> TRUE]

\* no export_session call has returned yet
NoExport == [format |-> "none"]

UserInputs == {<<"do X">>}

\* the tools the caller registers while conversations run (app.py
\* _setup_agent_tools): a read-only one and a build-only one
SpecTools ==
    {[name |-> "read_file", function |-> "f1", requires_build_mode |-> FALSE],
     [name |-> "execute_command", function |-> "f2", requires_build_mode |-> TRUE]}

Suspended == pc \in {"idle", "think", "tool"}

KindSeqs(n) == UNION {[1..k -> CallKinds] : k \in 0..n}

InitCore ==
    /\ mode = "plan"
    /\ tools = <<>>
    /\ messages = <<>>
    /\ usage_stats = ZeroUsage
    /\ pc = "idle"
    /\ phase = 1
    /\ calls = <<>>
    /\ idx = 0
    /\ request = NoRequest
    /\ response = [kind |-> "none", value |-> <<>>]
    /\ nextId = 0
    /\ nproc = 0
    /\ startLen = 0
    /\ actRounds = 0
    /\ completions = 0
    /\ invoked = <<>>
    /\ outcomes = <<>>
    /\ confirmation_callback = NoCallback
    /\ dangerous_keywords = DangerousKeywords
    /\ xpc = "idle"
    /\ xcmd = <<>>
    /\ xtimeout = 0
    /\ xkeyword = <<>>
    /\ confirmCalls = 0
    /\ confirmed = "none"
    /\ proc = "none"
    /\ spawned = 0
    /\ signals = <<>>
    /\ orphans = 0
    /\ nexec = 0
    /\ result = NoResult
    /\ processing = FALSE
    /\ appInFlight = 0
    /\ lastSend = "none"
    /\ submit_ready = TRUE
    /\ promptText = FALSE
    /\ chatQueue = <<>>
    /\ chatPc = "idle"
    /\ workers = 0
    /\ nsend = 0

\* MemoryManager.__init__ on an empty storage directory
InitMemory ==
    /\ current_session = NoSession
    /\ files = <<>>
    /\ loadResult = "none"
    /\ known = <<>>
    /\ nsess = 0
    /\ nmsg = 0
    /\ clock = 1
    /\ exported = NoExport

Init == InitCore /\ InitMemory

Next ==
    \/ \E input \in UserInputs : ProcessCall(input)
    \/ \E kinds \in KindSeqs(MaxCalls),
          usage \in ReplyUsages, cost \in ReplyCosts :
          CompletionOk(ReplyContent(kinds), kinds, usage, cost)
    \/ \E e \in CompletionErrors, usage \in ReplyUsages, cost \in ReplyCosts :
          CompletionFail(e, usage, cost)
    \/ ActStep
    \/ \E outcome \in ToolOutcomes : ToolReturn(outcome)
    \/ ProcessReturn
    \/ Suspended /\ \E m \in AgentMode : SwitchMode(m)
    \/ Suspended /\ \E tool \in SpecTools : RegisterTool(tool)
    \/ pc = "idle" /\ ClearHistory

Spec == Init /\ [][Next]_vars

\* the steps of a running process(): the completion call returns or fails,
\* act goes on, the tool handler returns, process() returns
ProcessSteps ==
    \/ \E kinds \in KindSeqs(MaxCalls),
          usage \in ReplyUsages, cost \in ReplyCosts :
          CompletionOk(ReplyContent(kinds), kinds, usage, cost)
    \/ \E e \in CompletionErrors, usage \in ReplyUsages, cost \in ReplyCosts :
          CompletionFail(e, usage, cost)
    \/ ActStep
    \/ \E outcome \in ToolOutcomes : ToolReturn(outcome)
    \/ ProcessReturn

\* process() calls one after the other, the caller registering tools and
\* switching the mode between them
NextLive ==
    \/ \E input \in UserInputs : ProcessCall(input)
    \/ ProcessSteps
    \/ pc = "idle" /\ \E m \in AgentMode : SwitchMode(m)
    \/ pc = "idle" /\ \E tool \in SpecTools : RegisterTool(tool)

\* the agent core under the assumption that every awaited completion call
\* and tool handler eventually returns and the event loop keeps running
SpecLive == Init /\ [][NextLive]_vars /\ WF_vars(ProcessSteps)

-----------------------------------------------------------------------------
(* Specification of the registry and the capability gate alone: every      *)
(* sequence of register_tool and switch_mode calls, over all tools.        *)

NextGate ==
    \/ \E tool \in Tool : RegisterTool(tool)
    \/ \E m \in AgentMode : SwitchMode(m)

SpecGate == Init /\ [][NextGate]_vars

-----------------------------------------------------------------------------
(* Specification of the usage tracker alone: every sequence of recorded    *)
(* completion responses and resets.                                         *)

UsagePayloads == {NoUsage} \cup {Usage(p, c, p + c) : p \in 1..3, c \in 0..1}

UsageCosts == {CostRaises, 0, 2}

\* think, line 222: self._track_usage(response)
RecordUsage(usage, cost) ==
    /\ usage_stats.requests_count < MaxRequests
    /\ usage_stats' = TrackUsage(usage_stats, usage, cost)
    /\ UNCHANGED <<mode, tools, messages, pc, phase, calls, idx,
                   request, response, nextId, nproc, startLen, actRounds,
                   completions, invoked, outcomes>>
    /\ UNCHANGED execVars
    /\ UNCHANGED tuiVars
    /\ UNCHANGED memVars

ResetUsageStats ==
    /\ usage_stats' = ZeroUsage
    /\ UNCHANGED <<mode, tools, messages, pc, phase, calls, idx,
                   request, response, nextId, nproc, startLen, actRounds,
                   completions, invoked, outcomes>>
    /\ UNCHANGED execVars
    /\ UNCHANGED tuiVars
    /\ UNCHANGED memVars

NextUsage ==
    \/ \E usage \in UsagePayloads, cost \in UsageCosts : RecordUsage(usage, cost)
    \/ ResetUsageStats

SpecUsage == Init /\ [][NextUsage]_vars

-----------------------------------------------------------------------------
(* Specification of the executor: calls one after the other, the callback   *)
(* set between calls.                                                       *)

Commands ==
    {<<"l","s">>, <<"r","m"," ","x">>, <<"R","M"," ","x">>,
     <<"c","a","t"," ","f">>, <<"s","u","d","o"," ","l","s">>,
     <<"l","s"," ","\"">>, <<>>, <<"s","l","e","e","p"," ","9">>}

Timeouts ==
    {[num |-> TRUE, value |-> 30], [num |-> TRUE, value |-> 1],
     [num |-> FALSE, value |-> 0]}

\* process.returncode: 0, a non-zero exit status, or minus the number of the
\* signal that ended the process (-1 is SIGHUP)
ExitCodes == {0, 1, -1}

\* str(e) of the faults create_subprocess_exec raises
SpawnErrors == {"FileNotFoundError", "TypeError"}

\* what a process can have written to its pipes
Outputs == {<<>>, <<"out">>}

ErrOutputs == {<<>>, <<"FileNotFoundError">>}

NextExec ==
    \/ \E command \in Commands, timeout \in Timeouts :
          ExecuteCommand(command, timeout)
    \/ \E decision \in {"yes", "no", "raise"} : ConfirmReturn(decision)
    \/ SpawnOk
    \/ \E e \in SpawnErrors : SpawnFail(e)
    \/ \E rc \in ExitCodes, out \in Outputs, err \in ErrOutputs :
          ProcessExit(rc, out, err)
    \/ Timeout
    \/ OrphanExit
    \/ ExecuteReturn
    \/ xpc = "idle" /\ \E cb \in {NoCallback, "dialog"} : SetConfirmationCallback(cb)

SpecExec == Init /\ [][NextExec]_vars

-----------------------------------------------------------------------------
(* Specification of the executor called from a worker thread while another  *)
(* thread assigns its confirmation callback: the three reads of the         *)
(* attribute are separate steps and the assignment runs between any two.    *)

SwapCommands == {<<"l","s">>, <<"r","m"," ","x">>}

NextSwap ==
    \/ \E command \in SwapCommands, timeout \in Timeouts :
          ExecuteCommandThreaded(command, timeout)
    \/ RequestConfirmation
    \/ InvokeCallback
    \/ \E decision \in {"yes", "no", "raise"} : ConfirmReturn(decision)
    \/ SpawnOk
    \/ \E e \in SpawnErrors : SpawnFail(e)
    \/ \E rc \in ExitCodes, out \in Outputs, err \in ErrOutputs :
          ProcessExit(rc, out, err)
    \/ Timeout
    \/ OrphanExit
    \/ ExecuteReturn
    \/ \E cb \in {NoCallback, "dialog"} : SetConfirmationCallback(cb)

SpecSwap == Init /\ [][NextSwap]_vars

-----------------------------------------------------------------------------
(* The callers of process(): OpsPilotTUI._send_message, and the Chat widget *)
(* with its prompt.  Each widget handles its own messages one at a time;    *)
(* an await in a handler lets the other widgets' handlers run.              *)

\* OpsPilotTUI._send_message up to the await of agent.process: nothing is
\* awaited between the test of _processing and its assignment
SendMessage(text) ==
    /\ nsend < MaxSends
    /\ nsend' = nsend + 1
    /\ IF processing \/ text = <<>>
       THEN /\ lastSend' = "rejected"
            /\ UNCHANGED <<processing, appInFlight>>
       ELSE /\ lastSend' = "accepted"
            /\ processing' = TRUE
            /\ appInFlight' = appInFlight + 1
    /\ UNCHANGED <<submit_ready, promptText, chatQueue, chatPc, workers>>
    /\ UNCHANGED <<agentVars, execVars, memVars>>

\* agent.process returned or raised in _send_message: the finally clause
SendMessageReturn ==
    /\ appInFlight > 0
    /\ appInFlight' = appInFlight - 1
    /\ processing' = FALSE
    /\ UNCHANGED <<lastSend, submit_ready, promptText, chatQueue, chatPc,
                   workers, nsend>>
    /\ UNCHANGED <<agentVars, execVars, memVars>>

\* the user types into the prompt
TypeText ==
    /\ ~promptText
    /\ nsend < MaxSends
    /\ promptText' = TRUE
    /\ UNCHANGED <<processing, appInFlight, lastSend, submit_ready, chatQueue,
                   chatPc, workers, nsend>>
    /\ UNCHANGED <<agentVars, execVars, memVars>>

\* PromptInput.action_submit_prompt
SubmitPrompt ==
    /\ promptText
    /\ nsend < MaxSends
    /\ nsend' = nsend + 1
    /\ IF submit_ready
       THEN /\ chatQueue' = Append(chatQueue, "PromptSubmitted")
            /\ promptText' = FALSE
            /\ lastSend' = "accepted"
       ELSE /\ lastSend' = "rejected"
            /\ UNCHANGED <<chatQueue, promptText>>
    /\ UNCHANGED <<processing, appInFlight, submit_ready, chatPc, workers>>
    /\ UNCHANGED <<agentVars, execVars, memVars>>

\* the Chat widget takes the next message of its queue:
\* user_chat_message_submitted calls new_user_message, which runs up to the
\* await of mount; agent_finished_responding unblocks the prompt
ChatDispatch ==
    /\ chatPc = "idle"
    /\ chatQueue # <<>>
    /\ chatQueue' = Tail(chatQueue)
    /\ IF Head(chatQueue) = "PromptSubmitted"
       THEN chatPc' = "mount" /\ UNCHANGED submit_ready
       ELSE submit_ready' = TRUE /\ UNCHANGED chatPc
    /\ UNCHANGED <<processing, appInFlight, lastSend, promptText, workers,
                   nsend>>
    /\ UNCHANGED <<agentVars, execVars, memVars>>

\* new_user_message: mount returned, await ChatsManager.add_message_to_chat
ChatMounted ==
    /\ chatPc = "mount"
    /\ chatPc' = "store"
    /\ UNCHANGED <<processing, appInFlight, lastSend, submit_ready, promptText,
                   chatQueue, workers, nsend>>
    /\ UNCHANGED <<agentVars, execVars, memVars>>

\* new_user_message: the message is stored; block the prompt and start the
\* stream_agent_response worker, which calls agent.process in its thread
ChatStored ==
    /\ chatPc = "store"
    /\ chatPc' = "idle"
    /\ submit_ready' = FALSE
    /\ workers' = workers + 1
    /\ UNCHANGED <<processing, appInFlight, lastSend, promptText, chatQueue,
                   nsend>>
    /\ UNCHANGED <<agentVars, execVars, memVars>>

\* stream_agent_response: agent.process returned, AgentResponseComplete is
\* posted; or it raised, and AgentResponseFailed leaves the prompt blocked
WorkerDone(ok) ==
    /\ workers > 0
    /\ workers' = workers - 1
    /\ chatQueue' = IF ok THEN Append(chatQueue, "AgentResponseComplete")
                    ELSE chatQueue
    /\ UNCHANGED <<processing, appInFlight, lastSend, submit_ready, promptText,
                   chatPc, nsend>>
    /\ UNCHANGED <<agentVars, execVars, memVars>>

-----------------------------------------------------------------------------
(* Specification of the callers: every interleaving of send events, widget *)
(* handlers and process() returns.                                          *)

MessageTexts == {<<>>, <<"hi">>}

NextSend ==
    \/ \E text \in MessageTexts : SendMessage(text)
    \/ SendMessageReturn
    \/ TypeText
    \/ SubmitPrompt
    \/ ChatDispatch
    \/ ChatMounted
    \/ ChatStored
    \/ \E ok \in BOOLEAN : WorkerDone(ok)

SpecSend == Init /\ [][NextSend]_vars

-----------------------------------------------------------------------------
(* Specification of registry lookups under registration: process() calls   *)
(* whose replies call read_file, while read_file is registered again and    *)
(* again with every handler and flag.                                       *)

LookupTools == {tool \in Tool : tool.name = "read_file"}

LookupKinds ==
    {<<<<"read_file", "{}">>>>,
     <<<<"read_file", "{}">>, <<"read_file", "{}">>>>}

NextLookup ==
    \/ \E input \in UserInputs : ProcessCall(input)
    \/ \E kinds \in LookupKinds \cup {<<>>},
          usage \in ReplyUsages, cost \in ReplyCosts :
          CompletionOk(ReplyContent(kinds), kinds, usage, cost)
    \/ ActStep
    \/ \E outcome \in ToolOutcomes : ToolReturn(outcome)
    \/ ProcessReturn
    \/ Suspended /\ \E tool \in LookupTools : RegisterTool(tool)

SpecLookup == Init /\ [][NextLookup]_vars

-----------------------------------------------------------------------------
(* MemoryManager: sessions kept in memory and as JSON files.  A text is a   *)
(* sequence of characters; "E9" stands for the one character U+00E9, every  *)
(* token other than the quote, the backslash, the newline and "E9" for a    *)
(* run of plain ASCII characters.                                           *)

max_messages_per_session == 1000

\* json.dump of one character of a str (ensure_ascii is on)
EscapeCharRaw(c) == <<c>>

EscapeChar(c) ==
    CASE c = "\"" -> <<"\\", "\"">>
      [] c = "\\" -> <<"\\", "\\">>
      [] c = "\n" -> <<"\\", "n">>
      [] c = "E9" -> <<"\\", "u", "0", "0", "e", "9">>
      [] OTHER -> <<c>>

RECURSIVE JsonEscape(_)
JsonEscape(text) ==
    IF text = <<>> THEN <<>>
    ELSE EscapeChar(Head(text)) \o JsonEscape(Tail(text))

\* json.load of the inside of a string literal: the text, or a decode error
RECURSIVE JsonUnescape(_)
JsonUnescape(raw) ==
    IF raw = <<>> THEN [ok |-> TRUE, text |-> <<>>]
    ELSE IF raw[1] = "\"" \/ raw[1] = "\n" \/ raw[1] = "E9"
    THEN [ok |-> FALSE, text |-> <<>>]
    ELSE IF raw[1] # "\\"
    THEN LET rest == JsonUnescape(Tail(raw))
         IN  [ok |-> rest.ok, text |-> <<raw[1]>> \o rest.text]
    ELSE IF Len(raw) < 2 THEN [ok |-> FALSE, text |-> <<>>]
    ELSE IF raw[2] \in {"\"", "\\"}
    THEN LET rest == JsonUnescape(SubSeq(raw, 3, Len(raw)))
         IN  [ok |-> rest.ok, text |-> <<raw[2]>> \o rest.text]
    ELSE IF raw[2] = "n"
    THEN LET rest == JsonUnescape(SubSeq(raw, 3, Len(raw)))
         IN  [ok |-> rest.ok, text |-> <<"\n">> \o rest.text]
    ELSE IF raw[2] = "u" /\ Len(raw) >= 6
                         /\ SubSeq(raw, 3, 6) = <<"0", "0", "e", "9">>
    THEN LET rest == JsonUnescape(SubSeq(raw, 7, Len(raw)))
         IN  [ok |-> rest.ok, text |-> <<"E9">> \o rest.text]
    ELSE [ok |-> FALSE, text |-> <<>>]

\* JSON values: the containers keep their structure, a string is the text
\* between its quotes
JsonStr(text) == [t |-> "str", raw |-> JsonEscape(text)]

JsonNum(n) == [t |-> "num", v |-> n]

JsonNull == [t |-> "null"]

JsonEmptyDict == [t |-> "dict"]

\* str(uuid.uuid4()): the n-th identifier handed out
Uuid(kind, n) == <<kind, ToString(n)>>

\* the ChatMessage add_message builds
ChatMessage(id, role, content, timestamp) ==
    [id |-> id, role |-> role, content |-> content, timestamp |-> timestamp,
     tool_calls |-> NoneVal, tool_call_id |-> NoneVal, metadata |-> "{}"]

\* ChatMessage.to_dict, written by json.dump
DumpMessage(msg) ==
    [id |-> JsonStr(msg.id), role |-> JsonStr(msg.role),
     content |-> JsonStr(msg.content), timestamp |-> JsonNum(msg.timestamp),
     tool_calls |-> JsonNull, tool_call_id |-> JsonNull,
     metadata |-> JsonEmptyDict]

\* ConversationSession.to_dict, written by json.dump
DumpSession(session) ==
    [id |-> JsonStr(session.id), title |-> JsonStr(session.title),
     created_at |-> JsonNum(session.created_at),
     updated_at |-> JsonNum(session.updated_at),
     messages |-> [i \in 1..Len(session.messages) |->
                      DumpMessage(session.messages[i])],
     metadata |-> [t |-> "dict", mode |-> JsonStr(session.metadata.mode)]]

\* json.load, then ChatMessage.from_dict
LoadMessage(doc) ==
    LET id == JsonUnescape(doc.id.raw)
        role == JsonUnescape(doc.role.raw)
        content == JsonUnescape(doc.content.raw)
    IN  [ok |-> id.ok /\ role.ok /\ content.ok,
         value |-> ChatMessage(id.text, role.text, content.text,
                               doc.timestamp.v)]

\* json.load, then ConversationSession.from_dict
LoadDocument(doc) ==
    LET id == JsonUnescape(doc.id.raw)
        title == JsonUnescape(doc.title.raw)
        meta == JsonUnescape(doc.metadata.mode.raw)
        msgs == [i \in 1..Len(doc.messages) |-> LoadMessage(doc.messages[i])]
    IN  [ok |-> /\ id.ok /\ title.ok /\ meta.ok
                /\ \A i \in 1..Len(msgs) : msgs[i].ok,
         value |-> [id |-> id.text, title |-> title.text,
                    created_at |-> doc.created_at.v,
                    updated_at |-> doc.updated_at.v,
                    messages |-> [i \in 1..Len(msgs) |-> msgs[i].value],
                    metadata |-> [mode |-> meta.text]]]

\* msgs[-k:] of Python
LastK(msgs, k) ==
    IF k = 0 THEN msgs
    ELSE IF k > 0
    THEN SubSeq(msgs, IF Len(msgs) > k THEN Len(msgs) - k + 1 ELSE 1,
                Len(msgs))
    ELSE SubSeq(msgs, 1 - k, Len(msgs))

\* add_message: keep the system messages and the most recent messages
TrimMessages(msgs) ==
    IF Len(msgs) > max_messages_per_session
    THEN LET system == SelectSeq(msgs, LAMBDA x : x.role = <<"system">>)
         IN  system \o LastK(msgs, max_messages_per_session - Len(system))
    ELSE msgs

\* the directory after _save_session wrote the session's file
SaveSession(fs, session) ==
    [name \in DOMAIN fs \cup {session.id} |->
        IF name = session.id THEN DumpSession(session) ELSE fs[name]]

\* the ghost record of the sessions as they last were in memory
Remember(kn, session) ==
    [name \in DOMAIN kn \cup {session.id} |->
        IF name = session.id THEN session ELSE kn[name]]

NewSession(title, id, now) ==
    [id |-> id, title |-> title, created_at |-> now, updated_at |-> now,
     messages |-> <<>>, metadata |-> [mode |-> <<"plan">>]]

\* create_session(title)
CreateSession(title) ==
    /\ nsess < MaxSessions
    /\ LET session == NewSession(title, Uuid("s", nsess + 1), clock)
       IN  /\ current_session' = session
           /\ files' = SaveSession(files, session)
           /\ known' = Remember(known, session)
    /\ nsess' = nsess + 1
    /\ clock' = clock + 1
    /\ UNCHANGED <<loadResult, nmsg, exported>>
    /\ UNCHANGED <<agentVars, execVars, tuiVars>>

\* add_message(role, content); with no current session it creates one first
MemAddMessageOp(role, content) ==
    /\ current_session = NoSession => nsess < MaxSessions
    /\ LET created == current_session = NoSession
           base == IF created
                   THEN NewSession(<<"New Conversation">>,
                                   Uuid("s", nsess + 1), clock)
                   ELSE current_session
           now == IF created THEN clock + 1 ELSE clock
           msg == ChatMessage(Uuid("m", nmsg + 1), role, content, now)
           session == [base EXCEPT
                          !.messages = TrimMessages(Append(@, msg)),
                          !.updated_at = now]
       IN  /\ current_session' = session
           /\ files' = SaveSession(files, session)
           /\ known' = Remember(known, session)
           /\ nsess' = IF created THEN nsess + 1 ELSE nsess
           /\ clock' = now + 1
    /\ nmsg' = nmsg + 1
    /\ UNCHANGED <<loadResult, exported>>
    /\ UNCHANGED <<agentVars, execVars, tuiVars>>

\* add_message within the bound of the sessions that start empty
MemAddMessage(role, content) ==
    /\ nmsg < MaxMessages
    /\ MemAddMessageOp(role, content)

\* load_session(session_id)
LoadSession(id) ==
    /\ IF id \notin DOMAIN files
       THEN /\ loadResult' = "False"
            /\ UNCHANGED current_session
       ELSE LET loaded == LoadDocument(files[id])
            IN  IF loaded.ok
                THEN /\ loadResult' = "True"
                     /\ current_session' = loaded.value
                ELSE /\ loadResult' = "False"
                     /\ UNCHANGED current_session
    /\ UNCHANGED <<files, known, nsess, nmsg, clock, exported>>
    /\ UNCHANGED <<agentVars, execVars, tuiVars>>

\* what export_session returns for a loaded session: the JSON document, the
\* title with the messages other than system messages (markdown, txt), or
\* None for any other format
ExportContent(session, format) ==
    CASE format = "json" ->
            [format |-> "json", document |-> DumpSession(session)]
      [] format \in {"markdown", "txt"} ->
            [format |-> format, title |-> session.title,
             lines |-> LET shown == SelectSeq(session.messages,
                                       LAMBDA x : x.role # <<"system">>)
                       IN  [i \in 1..Len(shown) |->
                               [role |-> shown[i].role,
                                content |-> shown[i].content]]]
      [] OTHER -> [format |-> "None"]

\* export_session(session_id, format): load_session, then the export of
\* what is now the current session
ExportSession(id, format) ==
    /\ IF id \notin DOMAIN files
       THEN /\ loadResult' = "False"
            /\ exported' = [format |-> "None"]
            /\ UNCHANGED current_session
       ELSE LET loaded == LoadDocument(files[id])
            IN  IF loaded.ok
                THEN /\ loadResult' = "True"
                     /\ current_session' = loaded.value
                     /\ exported' = ExportContent(loaded.value, format)
                ELSE /\ loadResult' = "False"
                     /\ exported' = [format |-> "None"]
                     /\ UNCHANGED current_session
    /\ UNCHANGED <<files, known, nsess, nmsg, clock>>
    /\ UNCHANGED <<agentVars, execVars, tuiVars>>

-----------------------------------------------------------------------------
(* Specification of the memory manager: sessions created, messages added    *)
(* and sessions loaded in every order.                                      *)

Titles == {<<"T">>, <<"\"", "E9">>}

\* the (role, content) arguments of add_message
NewMessages ==
    {[role |-> <<"user">>, content |-> <<"a", "\n", "\"">>],
     [role |-> <<"assistant">>, content |-> <<"\\", "n">>],
     [role |-> <<"user">>, content |-> <<>>]}

SessionIds == {Uuid("s", n) : n \in 1..(MaxSessions + 1)}

NextMemory ==
    \/ \E title \in Titles : CreateSession(title)
    \/ \E new \in NewMessages : MemAddMessage(new.role, new.content)
    \/ \E id \in SessionIds : LoadSession(id)

SpecMemory == Init /\ [][NextMemory]_vars

-----------------------------------------------------------------------------
(* Specification of export: sessions created, messages added and sessions   *)
(* exported in every order and format.                                      *)

Formats == {"json", "markdown", "txt", "yaml"}

NextExport ==
    \/ \E title \in Titles : CreateSession(title)
    \/ \E new \in NewMessages : MemAddMessage(new.role, new.content)
    \/ \E id \in SessionIds, format \in Formats : ExportSession(id, format)

SpecExport == Init /\ [][NextExport]_vars

-----------------------------------------------------------------------------
(* Specification of the trimming of add_message: a manager whose current    *)
(* session already holds PrefillLen messages, the first of them system      *)
(* messages, gets more messages of either kind.                             *)

TrimContent == <<"a">>

\* the session after PrefillLen add_message calls, the first sys of them
\* with the role "system"
PrefilledSession(sys) ==
    [NewSession(<<"T">>, Uuid("s", 1), 1) EXCEPT
        !.messages = [i \in 1..PrefillLen |->
                         ChatMessage(Uuid("m", i),
                                     IF i <= sys THEN <<"system">>
                                     ELSE <<"user">>,
                                     TrimContent, i + 1)],
        !.updated_at = PrefillLen + 1]

PrefillSystem == {0, 1, PrefillLen - 1, PrefillLen}

InitTrim ==
    /\ InitCore
    /\ \E sys \in PrefillSystem :
          /\ current_session = PrefilledSession(sys)
          /\ files = SaveSession(<<>>, PrefilledSession(sys))
          /\ known = Remember(<<>>, PrefilledSession(sys))
    /\ loadResult = "none"
    /\ nsess = 1
    /\ nmsg = PrefillLen
    /\ clock = PrefillLen + 2
    /\ exported = NoExport

\* add_message on the long session
TrimAddMessage(role, content) ==
    /\ nmsg < MaxStored
    /\ MemAddMessageOp(role, content)

NextTrim ==
    \/ \E role \in {<<"system">>, <<"user">>} :
          TrimAddMessage(role, TrimContent)
    \/ LoadSession(Uuid("s", 1))

SpecTrim == InitTrim /\ [][NextTrim]_vars

-----------------------------------------------------------------------------
(* Specification of register_tool over tools of every name, the empty name
   included. *)

AnyNameTools ==
    [name : {"", "read_file", "write_file"}, function : Handlers,
     requires_build_mode : BOOLEAN]

NextRegister ==
    \/ \E tool \in AnyNameTools : RegisterTool(tool)
    \/ \E m \in AgentMode : SwitchMode(m)

SpecRegister == Init /\ [][NextRegister]_vars

-----------------------------------------------------------------------------
(* Specification of a session reset during process(): action_new_session   *)
(* calls clear_history with no test of _processing, so it can run at every  *)
(* await of a running process().                                            *)

NextSession ==
    \/ \E input \in UserInputs : ProcessCall(input)
    \/ ProcessSteps
    \/ pc \in {"think", "tool"} /\ ClearHistory
    \/ pc = "idle" /\ \E tool \in SpecTools : RegisterTool(tool)
    \/ pc = "idle" /\ \E m \in AgentMode : SwitchMode(m)

SpecSession == Init /\ [][NextSession]_vars

-----------------------------------------------------------------------------
(* Properties *)

AvailableNow == GetAvailableTools(tools, mode)

Registered(name) == tools[IndexOf(tools, name)]

\* C1: in Plan mode get_available_tools() returns no build-only tool, and in
\* Build mode it returns every registered tool, in registry order.
C1_CapabilityGate ==
    /\ mode = "plan" =>
          \A i \in 1..Len(AvailableNow) :
              ~Registered(AvailableNow[i].name).requires_build_mode
    /\ mode = "build" =>
          /\ Len(AvailableNow) = Len(tools)
          /\ \A i \in 1..Len(tools) : AvailableNow[i].name = tools[i].name

C1_Witness ==
    /\ mode = "plan"
    /\ Len(tools) = 3
    /\ Len(AvailableNow) = 1
    /\ \E i \in 1..3 : tools[i].requires_build_mode

\* the Act phase of the current process() is over: act returned (the
\* follow-up think began) or act raised
ActEnded ==
    /\ actRounds >= 1
    /\ pc = "raised" \/ (phase = 2 /\ pc \in {"think", "done"})

ToolMessageFor(id) ==
    {k \in (startLen + 1)..Len(messages) :
        messages[k].role = "tool" /\ messages[k].tool_call_id = id}

\* C3: once the Act phase is over, history holds exactly one tool message
\* per call of the list, in call order, each with its call's id.
C3_OneResultPerCall ==
    ActEnded =>
        /\ Len(messages) >= startLen + 2 + Len(calls)
        /\ \A i \in 1..Len(calls) :
              /\ messages[startLen + 2 + i].role = "tool"
              /\ messages[startLen + 2 + i].tool_call_id = calls[i].id
        /\ Cardinality({k \in (startLen + 1)..Len(messages) :
                           messages[k].role = "tool"}) = Len(calls)

\* the tool calls of the follow-up reply, once process() has returned
FollowUpCalls ==
    IF pc = "done" /\ phase = 2 THEN Last(messages).tool_calls ELSE <<>>

\* C4: one process() enters the Act phase at most once and calls the
\* completion client at most twice; no call of the follow-up reply is handed
\* to a handler or answered.
C4_OneActRound ==
    /\ actRounds <= 1
    /\ completions <= 2
    /\ \A c \in 1..Len(FollowUpCalls) :
          /\ \A i \in 1..Len(invoked) : invoked[i].id # FollowUpCalls[c].id
          /\ ToolMessageFor(FollowUpCalls[c].id) = {}

C4_Witness ==
    /\ pc = "done"
    /\ phase = 2
    /\ actRounds = 1
    /\ completions = 2
    /\ Len(invoked) >= 1
    /\ FollowUpCalls # <<>>

\* C5: a failed completion call, in either think, ends process() without
\* raising: one assistant message with the error text is appended last, that
\* text is returned, and no Act or Think phase follows.
C5_FailureIsTerminal ==
    [][\A e \in CompletionErrors, u \in ReplyUsages, c \in ReplyCosts :
          CompletionFail(e, u, c) =>
              /\ pc' = "done"
              /\ Len(messages') = Len(messages) + 1
              /\ Last(messages') =
                     Message("assistant", <<AIErrorPrefix, e>>, <<>>, NoId)
              /\ response' = [kind |-> "returned", value |-> <<AIErrorPrefix, e>>]
              /\ actRounds' = actRounds
              /\ completions' = completions
              /\ invoked' = invoked]_vars

C5_Witness ==
    /\ pc = "done"
    /\ phase = 2
    /\ actRounds = 1
    /\ response = [kind |-> "returned", value |-> <<AIErrorPrefix, "timeout">>]
    /\ Last(messages).content = <<AIErrorPrefix, "timeout">>

\* C6 as claimed: a process() whose first reply carries n >= 1 calls grows
\* history by n + 3 messages.
C6_GrowsByNPlus3 ==
    pc = "done" /\ actRounds = 1 => Len(messages) = startLen + Len(calls) + 3

\* C6 amended: when such a process() returns, history has grown by n + 4:
\* user, assistant with the calls, n tool results in call order, the empty
\* user message of the follow-up think, the follow-up assistant.
C6_GrowsByNPlus4 ==
    pc = "done" /\ actRounds = 1 =>
        LET n == Len(calls)
            b == startLen
        IN  /\ n >= 1
            /\ Len(messages) = b + n + 4
            /\ messages[b + 1].role = "user"
            /\ messages[b + 2].role = "assistant"
            /\ messages[b + 2].tool_calls = calls
            /\ \A i \in 1..n :
                  /\ messages[b + 2 + i].role = "tool"
                  /\ messages[b + 2 + i].tool_call_id = calls[i].id
            /\ messages[b + n + 3] = Message("user", <<>>, <<>>, NoId)
            /\ messages[b + n + 4].role = "assistant"

C6_Witness ==
    /\ pc = "done"
    /\ actRounds = 1
    /\ Len(calls) = 2
    /\ Len(messages) = startLen + 6
    /\ Last(messages).tool_calls = <<>>

Answered(k, c) ==
    \E j \in (k + 1)..Len(messages) :
        /\ messages[j].role = "tool"
        /\ messages[j].tool_call_id = messages[k].tool_calls[c].id

\* C8 as claimed: when process() returns, every tool call of every assistant
\* message it appended has a tool message with its id later in history.
C8_EveryCallAnswered ==
    pc = "done" =>
        \A k \in (startLen + 1)..Len(messages) :
            messages[k].role = "assistant" =>
                \A c \in 1..Len(messages[k].tool_calls) : Answered(k, c)

\* C8 amended: when process() returns, every tool call of the first reply
\* has a tool message with its id later in history; the calls of the
\* follow-up reply have none.
C8_FirstReplyAnswered ==
    pc = "done" =>
        /\ \A c \in 1..Len(messages[startLen + 2].tool_calls) :
              Answered(startLen + 2, c)
        /\ \A c \in 1..Len(FollowUpCalls) :
              ToolMessageFor(FollowUpCalls[c].id) = {}

C8_Witness ==
    /\ pc = "done"
    /\ phase = 2
    /\ Len(messages[startLen + 2].tool_calls) >= 1
    /\ Answered(startLen + 2, 1)
    /\ FollowUpCalls # <<>>
    /\ \E i \in 1..Len(outcomes) : outcomes[i].kind = "KeyError"

\* C9: a call whose handler raised or whose tool is not registered gets a
\* tool message that starts with "Tool Error:", and every later call of the
\* list is still executed (gets its tool message).
C9_FailureDoesNotAbort ==
    ActEnded =>
        \A i \in 1..Len(outcomes) :
            outcomes[i].kind \in {"raised", "KeyError"} =>
                /\ \E k \in ToolMessageFor(calls[i].id) :
                      messages[k].content[1] = ToolErrorPrefix
                /\ \A j \in (i + 1)..Len(calls) :
                      ToolMessageFor(calls[j].id) # {}

NonNegative(stats) ==
    /\ stats.total_tokens >= 0
    /\ stats.total_cost >= 0
    /\ stats.requests_count >= 0
    /\ stats.current_context_tokens >= 0

C2_BlockedNeverSpawns ==
    confirmed = "no" =>
        /\ MatchedKeywords(dangerous_keywords, xcmd) # {}
        /\ spawned = 0
        /\ proc = "none"
        /\ xpc \in {"returned", "idle"}
        /\ result = BlockedResult(xcmd)
        /\ result.success = FALSE

C2_Witness ==
    /\ xpc = "returned"
    /\ confirmed = "no"
    /\ xcmd = <<"R","M"," ","x">>
    /\ confirmation_callback # NoCallback
    /\ result.success = FALSE
    /\ spawned = 0

\* C7: when execute_command returns the timed-out result for a command whose
\* process it spawned, that process is no longer running.
C7_TimeoutLeavesNoProcess ==
    (/\ xpc = "returned"
     /\ spawned > 0
     /\ result = TimeoutResult(xcmd, xtimeout))
        => (result.success = FALSE /\ proc # "running")

\* C11: recording a response whose usage payload is missing, or whose cost
\* cannot be computed, is a no-op: all four usage counters are exactly what
\* they were before the call.
C11_BadPayloadIsNoOp ==
    [][\A usage \in UsagePayloads, cost \in UsageCosts :
          (RecordUsage(usage, cost) /\ (~usage.present \/ cost = CostRaises))
              => usage_stats' = usage_stats]_vars

\* the safety check let the current command through: the call is at the
\* spawn of the tokenized command, or returned the tokenizer's error
Proceeds ==
    IF ShlexSplit(xcmd).ok
    THEN xpc = "spawn" /\ spawned = 0 /\ proc = "none"
    ELSE xpc = "returned" /\ result = ErrorResult(xcmd, "No closing quotation")

IsTimeoutResult(r) ==
    /\ DOMAIN r = {"success", "error", "command"}
    /\ r.success = FALSE
    /\ Len(r.error) = 3
    /\ r.error[1] = "Command timed out after "

IsExitResult(r) ==
    /\ DOMAIN r = {"success", "return_code", "stdout", "stderr", "command"}
    /\ r.success = (r.return_code = 0)

IsBlockedResult(r) ==
    /\ DOMAIN r = {"success", "error", "command"}
    /\ r.success = FALSE
    /\ r.error = <<"Command blocked by safety check">>

\* C13: the result of a timeout carries no return_code and an error that
\* names the timeout; the result of a process that exited non-zero carries
\* return_code, stdout and stderr and no error; the blocked result is
\* neither of the two.
C13_FailureKindsDistinct ==
    [][/\ Timeout =>
            (/\ IsTimeoutResult(result')
             /\ ~IsExitResult(result') /\ ~IsBlockedResult(result'))
       /\ \A rc \in ExitCodes \ {0}, out \in Outputs, err \in ErrOutputs :
            ProcessExit(rc, out, err) =>
                (/\ IsExitResult(result')
                 /\ result'.return_code = rc
                 /\ result'.stdout = out /\ result'.stderr = err
                 /\ ~IsTimeoutResult(result') /\ ~IsBlockedResult(result'))
       /\ ConfirmReturn("no") =>
            (/\ IsBlockedResult(result')
             /\ ~IsTimeoutResult(result') /\ ~IsExitResult(result'))]_vars

C13_Witness ==
    /\ xpc = "returned"
    /\ proc = "running"
    /\ IsTimeoutResult(result)
    /\ orphans = 1

\* the results _capture_output builds when create_subprocess_exec raises
SpawnFailureResults ==
    {SpawnFailedResult(ShlexSplit(command).args, e) :
        command \in Commands, e \in SpawnErrors}

\* C14: the result returned for a process that was spawned and ended with a
\* non-zero return code (an exit status or a signal) is never equal, in keys
\* and values, to a result returned for a spawn failure.
C14_SpawnFailureDistinct ==
    (/\ xpc = "returned"
     /\ spawned > 0
     /\ proc = "exited"
     /\ IsExitResult(result)
     /\ result.return_code # 0)
        => result \notin SpawnFailureResults

\* C15: execute_command never propagates a fault: every call ends by
\* returning a result that has a success field, false on the failure paths.
C15_NeverPropagates ==
    /\ xpc # "raised"
    /\ xpc = "returned" =>
          /\ "success" \in DOMAIN result
          /\ (\/ IsTimeoutResult(result)
              \/ IsBlockedResult(result)
              \/ result \in SpawnFailureResults
              \/ "error" \in DOMAIN result) => result.success = FALSE

\* C16: for every registry, switching the mode and switching back leaves
\* get_available_tools returning the same tools in the same order: a switch
\* sets the mode to its argument and keeps the registry, so after any switch
\* the list for the mode that was left is the list seen before the switch,
\* and a switch from plan to build and back to plan ends in plan.
C16_ModeRoundTrip ==
    [][\A m \in AgentMode :
          SwitchMode(m) =>
              /\ mode' = m
              /\ \A back \in AgentMode :
                     GetAvailableTools(tools', back)
                         = GetAvailableTools(tools, back)]_vars

C16_Witness ==
    /\ mode = "build"
    /\ Len(tools) = 3
    /\ \E i \in 1..3 : tools[i].requires_build_mode
    /\ \E i \in 1..3 : ~tools[i].requires_build_mode
    /\ GetAvailableTools(tools, "plan") # GetAvailableTools(tools, mode)

\* the entries the registry holds for a name
EntriesFor(ts, name) == {i \in 1..Len(ts) : ts[i].name = name}

NamesOf(ts) == {ts[i].name : i \in 1..Len(ts)}

\* C17: registering a tool leaves exactly one entry for its name, and that
\* entry is the tool just registered, so of two tools registered under one
\* name the second wins; the entries of the other names are kept, and the
\* registry size is the number of distinct names registered so far.
C17_LastRegistrationWins ==
    [][\A tool \in Tool :
          RegisterTool(tool) =>
              /\ Cardinality(EntriesFor(tools', tool.name)) = 1
              /\ Registered(tool.name)' = tool
              /\ NamesOf(tools') = NamesOf(tools) \cup {tool.name}
              /\ Len(tools') = Cardinality(NamesOf(tools'))
              /\ \A i \in 1..Len(tools) :
                     tools[i].name # tool.name => tools'[i] = tools[i]]_vars

C17_Witness ==
    /\ Len(tools) = 2
    /\ tools[1] = [name |-> "read_file", function |-> "f2",
                   requires_build_mode |-> TRUE]
    /\ tools[2].name = "write_file"

\* C18: switch_mode changes only the mode: for any target mode, the current
\* one included, the message history, the registry and the usage counters
\* are the same after the call as before, and the mode is the target.
C18_SwitchModeFrame ==
    [][\A m \in AgentMode :
          SwitchMode(m) =>
              /\ mode' = m
              /\ messages' = messages
              /\ tools' = tools
              /\ usage_stats' = usage_stats]_vars

C18_Witness ==
    /\ mode = "build"
    /\ pc = "think"
    /\ phase = 2
    /\ Len(messages) >= 4
    /\ Len(invoked) >= 1
    /\ invoked[1].mode = "plan"
    /\ usage_stats.requests_count = 1

\* C19: the mode changes only in a switch_mode call: register_tool, think,
\* act, process and clear_history, usage recording included, leave it as it
\* is, whatever the user input, the model reply or the tool result.
C19_ModeOnlyBySwitch ==
    [][mode' # mode => \E m \in AgentMode : SwitchMode(m)]_vars

C19_Witness ==
    /\ mode = "build"
    /\ pc = "done"
    /\ phase = 2
    /\ Len(outcomes) = 2
    /\ \A i \in 1..Len(invoked) : invoked[i].mode = "build"
    /\ Len(invoked) >= 1

\* C20: clear_history empties the message history and leaves the mode, the
\* registry and the usage counters as they were.
C20_ClearHistoryFrame ==
    [][ClearHistory =>
          /\ messages' = <<>>
          /\ mode' = mode
          /\ tools' = tools
          /\ usage_stats' = usage_stats]_vars

C20_Witness ==
    /\ messages = <<>>
    /\ nproc = 1
    /\ pc = "idle"
    /\ mode = "build"
    /\ tools # <<>>
    /\ usage_stats.requests_count = 2

\* the names a list of tool schemas offers
OfferedNames(schemas) == {schemas[i].name : i \in 1..Len(schemas)}

FollowUpInFlight == pc = "think" /\ phase = 2

\* C22: when the follow-up request of a process() call is issued, every call
\* of the Act phase has ended and has its tool message in history, right
\* after the assistant message that carries the calls and in call order, and
\* the request's message list holds each of these messages at the same place
\* (one place further, after the system message).
C22_FollowUpSeesAllResults ==
    FollowUpInFlight =>
        /\ Len(outcomes) = Len(calls)
        /\ Len(request.messages) = Len(messages) + 1
        /\ messages[startLen + 2].role = "assistant"
        /\ messages[startLen + 2].tool_calls = calls
        /\ request.messages[startLen + 3].role = "assistant"
        /\ \A i \in 1..Len(calls) :
              /\ outcomes[i].id = calls[i].id
              /\ messages[startLen + 2 + i].role = "tool"
              /\ messages[startLen + 2 + i].tool_call_id = calls[i].id
              /\ request.messages[startLen + 3 + i] =
                     [role |-> "tool",
                      content |-> messages[startLen + 2 + i].content]

C22_Witness ==
    /\ FollowUpInFlight
    /\ Len(calls) = 2
    /\ outcomes[1].kind = "ok"
    /\ outcomes[2].kind = "raised"
    /\ request.messages[startLen + 4].content = <<"result">>
    /\ request.messages[startLen + 5].content = <<ToolErrorPrefix, "boom">>

\* C23: at most one agent.process() call is in flight for an agent at any
\* time, whichever way the send events and the handlers interleave.
C23_OneProcessInFlight ==
    /\ appInFlight <= 1
    /\ workers <= 1

C25_SuccessIffExitZero ==
    [][\A rc \in ExitCodes, out \in Outputs, err \in ErrOutputs :
          ProcessExit(rc, out, err) =>
              /\ xpc' = "returned"
              /\ result'.success = (rc = 0)
              /\ result'.return_code = rc
              /\ result'.stdout = out
              /\ result'.stderr = err
              /\ (rc # 0) => (~result'.success /\ result'.return_code # 0)]_vars

C25_Witness ==
    /\ xpc = "returned"
    /\ proc = "exited"
    /\ spawned = 1
    /\ result = [success |-> TRUE, return_code |-> 0, stdout |-> <<"out">>,
                 stderr |-> <<>>, command |-> <<"l", "s">>]

\* C26: each recorded response that carries a usage payload adds its
\* total_tokens to total_tokens, adds exactly 1 to requests_count and sets
\* current_context_tokens to its prompt_tokens.
C26_EachResponseCounted ==
    [][\A usage \in UsagePayloads, cost \in UsageCosts :
          (RecordUsage(usage, cost) /\ usage.present) =>
              /\ usage_stats'.total_tokens
                     = usage_stats.total_tokens + usage.total_tokens
              /\ usage_stats'.requests_count = usage_stats.requests_count + 1
              /\ usage_stats'.current_context_tokens = usage.prompt_tokens]_vars

\* C27: every process() invocation ends and the agent is idle again, after
\* at most two completion calls and one Act phase, provided every completion
\* call and tool handler returns.
C27_ProcessTerminates ==
    /\ [](completions <= 2 /\ actRounds <= 1)
    /\ (pc # "idle") ~> (pc = "idle")

C27_Witness ==
    /\ pc = "idle"
    /\ nproc = 1
    /\ completions = 2
    /\ actRounds = 1
    /\ Len(calls) = 2
    /\ Len(outcomes) = 2

\* the id, the title and the message sequence (roles, contents, order)
SessionContent(session) ==
    [id |-> session.id, title |-> session.title,
     messages |-> [i \in 1..Len(session.messages) |->
                      [role |-> session.messages[i].role,
                       content |-> session.messages[i].content]]]

\* C28: for a session made by create_session and any add_message calls,
\* load_session(id) returns True and makes current_session a session with
\* the id, the title and the message sequence the session had when it was
\* last current.
C28_SaveLoadRoundTrip ==
    [][\A id \in SessionIds :
          (LoadSession(id) /\ id \in DOMAIN known) =>
              /\ loadResult' = "True"
              /\ SessionContent(current_session')
                     = SessionContent(known[id])]_vars

C28_Witness ==
    /\ loadResult = "True"
    /\ nsess = 2
    /\ current_session # NoSession
    /\ current_session.id = Uuid("s", 1)
    /\ Len(current_session.messages) = 2
    /\ current_session.messages[1].content = <<"a", "\n", "\"">>
    /\ current_session.messages[2].content = <<"\\", "n">>
    /\ current_session.title = <<"\"", "E9">>

\* two characters that are the same letter, whatever their case
SameLetter(a, b) ==
    \/ a = b
    \/ a \in DOMAIN UpperToLower /\ UpperToLower[a] = b

\* the keyword occurs somewhere in the text, at any position and in any case
OccursIgnoringCase(keyword, text) ==
    \E i \in 1..(Len(text) - Len(keyword) + 1) :
        \A j \in 1..Len(keyword) : SameLetter(text[i + j - 1], keyword[j])

\* the command holds a keyword of the set fixed at construction
Dangerous(command) ==
    \E keyword \in DangerousKeywords : OccursIgnoringCase(keyword, command)

\* C29: a command is classified dangerous (the configured callback is
\* asked) exactly when a keyword of the fixed set occurs in it as a
\* substring, whatever the case and the word boundaries; the keyword set is
\* the one of construction and no step of execute_command changes it.
C29_DangerIsSubstringScan ==
    /\ [](dangerous_keywords = DangerousKeywords)
    /\ [][/\ dangerous_keywords' = dangerous_keywords
          /\ \A command \in Commands, timeout \in Timeouts :
               (/\ ExecuteCommand(command, timeout)
                /\ timeout.num
                /\ confirmation_callback # NoCallback)
               => ((xpc' = "confirm") <=> Dangerous(command))]_vars

C29_Witness ==
    /\ xpc = "confirm"
    /\ xcmd = <<"c","a","t"," ","f">>
    /\ xkeyword = <<"a","t">>
    /\ nexec = 2
    /\ result # NoResult

\* C30: in one execute_command call the callback is invoked exactly once
\* when the command is dangerous and a callback is configured and never
\* otherwise, with the original command text and a keyword of the set that
\* occurs in the lower-cased command.
C30_ConfirmationOncePerCall ==
    [][/\ \A command \in Commands, timeout \in Timeouts :
            ExecuteCommand(command, timeout) =>
               /\ confirmCalls' =
                     IF Dangerous(command)
                        /\ confirmation_callback # NoCallback
                     THEN 1 ELSE 0
               /\ confirmCalls' = 1 =>
                     /\ xpc' = "confirm"
                     /\ xcmd' = command
                     /\ xkeyword' \in DangerousKeywords
                     /\ Contains(Lower(command), xkeyword')
       /\ xpc # "idle" => confirmCalls' = confirmCalls]_vars

\* C31: a process that timed out was sent the graceful termination signal
\* first, and a forced kill, if any, only after it.
C31_TimeoutTerminatesThenKills ==
    (/\ xpc = "returned"
     /\ spawned > 0
     /\ result = TimeoutResult(xcmd, xtimeout))
        => /\ signals # <<>>
           /\ signals[1] = "SIGTERM"
           /\ \A i \in 2..Len(signals) : signals[i] = "SIGKILL"

\* every message of the first history is, unchanged and at its place, in
\* the second
IsPrefix(before, after) ==
    /\ Len(before) <= Len(after)
    /\ \A i \in 1..Len(before) : after[i] = before[i]

\* C32: every step of process (think, act and their add_message calls), of
\* switch_mode and of register_tool leaves the history it found as a prefix
\* of the history it leaves; only clear_history does not.
C32_HistoryAppendOnly ==
    [][ClearHistory \/ IsPrefix(messages, messages')]_vars

C32_Witness ==
    /\ pc = "idle"
    /\ nproc = 1
    /\ actRounds = 1
    /\ Len(messages) = 5
    /\ messages[3].role = "tool"
    /\ messages[5].role = "assistant"
    /\ mode = "build"
    /\ tools # <<>>

\* C33: the registry holds no tool under the empty name.
C33_NoEmptyName ==
    \A i \in 1..Len(tools) : tools[i].name # ""

\* C34: no handler of a tool registered with requires_build_mode = true is
\* invoked by the Act phase while the mode is Plan.
C34_PlanNeverRunsBuildTool ==
    \A i \in 1..Len(invoked) :
        invoked[i].mode = "plan" => ~invoked[i].requires_build_mode

\* the assistant message at position j issued the call with this id
IssuedBy(j, id) ==
    /\ messages[j].role = "assistant"
    /\ \E c \in 1..Len(messages[j].tool_calls) :
          messages[j].tool_calls[c].id = id

\* C35: every tool message in history has, before it in history, the
\* assistant message that issued the call with its id.
C35_ToolMessageHasIssuer ==
    \A i \in 1..Len(messages) :
        messages[i].role = "tool" =>
            \E j \in 1..(i - 1) : IssuedBy(j, messages[i].tool_call_id)

C37_BlockedOnlyAfterRefusal ==
    (xpc = "returned" /\ result = BlockedResult(xcmd))
        => (confirmCalls = 1 /\ confirmed = "no")

\* C38: the current session holds at most max_messages_per_session
\* messages after every add_message.
C38_SessionWithinLimit ==
    current_session # NoSession =>
        Len(current_session.messages) <= max_messages_per_session

\* the ids of the messages of a list
MessageIds(msgs) == {msgs[i].id : i \in 1..Len(msgs)}

\* the messages of a list that are not system messages, in order
OtherMessages(msgs) == SelectSeq(msgs, LAMBDA x : x.role # <<"system">>)

\* C39: an add_message that trims leaves no message id twice in the
\* session, keeps the new message and every system message, and keeps the
\* most recent other messages in their order.
C39_TrimKeepsEachOnce ==
    [][\A role \in {<<"system">>, <<"user">>} :
          (/\ TrimAddMessage(role, TrimContent)
           /\ Len(current_session.messages) + 1 > max_messages_per_session)
          => LET before == current_session.messages
                 after == current_session'.messages
                 others == OtherMessages(after)
                 all == OtherMessages(before)
             IN  /\ Cardinality(MessageIds(after)) = Len(after)
                 /\ Uuid("m", nmsg + 1) \in MessageIds(after)
                 /\ MessageIds(SelectSeq(before,
                                  LAMBDA x : x.role = <<"system">>))
                        \subseteq MessageIds(after)
                 /\ role = <<"user">> =>
                        /\ others # <<>>
                        /\ SubSeq(others, 1, Len(others) - 1)
                               = SubSeq(all, Len(all) - Len(others) + 2,
                                        Len(all))]_vars

\* C40: export_session leaves current_session as it was.
C40_ExportKeepsCurrent ==
    [][\A id \in SessionIds, format \in Formats :
          ExportSession(id, format) => current_session' = current_session]_vars

====
